---- MODULE Spec2Model ----
(***************************************************************************)
(* jpeg-to-pdf: the JpegToPdf builder, create_pdf / add_page, the          *)
(* Orientation geometry accessors and the Display of Error.                *)
(*                                                                         *)
(* Representation.  A JPEG buffer is a sequence of chunks (SOI, marker     *)
(* segments, EOI, stray bytes, a cut-off segment).  Option<T> is a record  *)
(* [some, v].  f64 angles and scale factors are the integers they denote   *)
(* (90, 180, 270, -1).  A length in points is the exact rational           *)
(* px * 72 / dpi, kept as a reduced fraction [num, den].                   *)
(***************************************************************************)
EXTENDS Integers, Sequences, FiniteSets, TLC

VARIABLES images, dpi, strip_exif, document_title, creation_date, mod_date,
          now_utc, pc, calls, pages, processed, saves, out, buffered, sink,
          result, stderr, exit_code, ori, geom

vars == <<images, dpi, strip_exif, document_title, creation_date, mod_date,
          now_utc, pc, calls, pages, processed, saves, out, buffered, sink,
          result, stderr, exit_code, ori, geom>>

builder == <<images, dpi, strip_exif, document_title, creation_date, mod_date>>
run == <<pages, processed, saves, out, buffered, sink, result, stderr, exit_code>>

(***************************************************************************)
(* Bounds                                                                  *)
(***************************************************************************)
MaxCalls == 3        \* builder calls before create_pdf
MaxCode == 9        \* orientation codes 0..MaxCode (plus two large ones)
MaxDim == 4        \* pixel widths and heights 1..MaxDim for the accessors
MaxSink == 1        \* chunks a failing sink accepts before its error
MaxRoom == 1        \* chunks the BufWriter holds before it writes to the sink

(***************************************************************************)
(* Option<T>                                                               *)
(***************************************************************************)
None == [some |-> FALSE, v |-> 0]
Some(x) == [some |-> TRUE, v |-> x]

(***************************************************************************)
(* ori.rs: Orientation {value, width, height} and its accessors            *)
(***************************************************************************)
Orientation(value, width, height) ==
  [value |-> value, width |-> width, height |-> height]

display_width(o) ==
  IF o.value \in 5..8 THEN o.height ELSE o.width

display_height(o) ==
  IF o.value \in 5..8 THEN o.width ELSE o.height

translate_x(o) ==
  CASE o.value \in {2, 3} -> Some(o.width)
    [] o.value \in {5, 8} -> Some(o.height)
    [] OTHER -> None

translate_y_swapped(o) ==
  CASE o.value \in {3, 4} -> Some(o.width)
    [] o.value \in {5, 6} -> Some(o.height)
    [] OTHER -> None

translate_y(o) ==
  CASE o.value \in {3, 4} -> Some(o.height)
    [] o.value \in {5, 6} -> Some(o.width)
    [] OTHER -> None

rotate_cw(o) ==
  CASE o.value \in {3, 4} -> Some(180)
    [] o.value \in {5, 8} -> Some(90)
    [] o.value \in {6, 7} -> Some(270)
    [] OTHER -> None

scale_x(o) ==
  CASE o.value \in {2, 4, 5, 7} -> Some(-1)
    [] OTHER -> None

\* the six accessors, as tests::test_orientation collects them
OrientationData(o) ==
  [display_width  |-> display_width(o),
   display_height |-> display_height(o),
   translate_x    |-> translate_x(o),
   translate_y    |-> translate_y(o),
   rotate_cw      |-> rotate_cw(o),
   scale_x        |-> scale_x(o)]

(***************************************************************************)
(* JPEG buffers.  A buffer is a sequence of chunks; every chunk is a       *)
(* record of the same shape:                                               *)
(*   k     "SOI" | "SEG" | "EOI" | "CUT" (a segment whose length field     *)
(*         runs past the end of the buffer) | "PAD" (bytes that are not    *)
(*         part of any marker segment)                                     *)
(*   m     the segment's marker                                            *)
(*   w, h, comps   the frame header of a SOF segment                       *)
(*   exif  the contents start with the "Exif\0\0" prefix                   *)
(*   tiff  the EXIF payload parses                                         *)
(*   tag   the primary IFD holds an Orientation field                      *)
(*   type, vals   that field's type and values                             *)
(*   id    stands for the remaining contents (tables, entropy-coded data)  *)
(***************************************************************************)
Chunk(k, m, id) ==
  [k |-> k, m |-> m, id |-> id, w |-> 0, h |-> 0, comps |-> 0,
   exif |-> FALSE, tiff |-> FALSE, tag |-> FALSE, type |-> "", vals |-> <<>>]

SOI == Chunk("SOI", "SOI", 0)
EOI == Chunk("EOI", "EOI", 0)
PAD == Chunk("PAD", "", 7)
CUT == Chunk("CUT", "DHT", 0)
APP0 == Chunk("SEG", "APP0", 1)
DQT == Chunk("SEG", "DQT", 2)
XMP == Chunk("SEG", "APP1", 3)
SOS(id) == Chunk("SEG", "SOS", id)
SOF(w, h, comps) ==
  [Chunk("SEG", "SOF0", 0) EXCEPT !.w = w, !.h = h, !.comps = comps]
EXIF(tiff, tag, type, vals) ==
  [Chunk("SEG", "APP1", 0) EXCEPT !.exif = TRUE, !.tiff = tiff, !.tag = tag,
                                  !.type = type, !.vals = vals]

\* a well-formed file with an Orientation field of the given type and values
Tagged(type, vals, w, h) ==
  <<SOI, APP0, EXIF(TRUE, TRUE, type, vals), DQT, SOF(w, h, 3), SOS(11), EOI>>

Plain == <<SOI, APP0, DQT, SOF(4, 3, 3), SOS(12), EOI>>
Grey == <<SOI, DQT, SOF(2, 5, 1), SOS(13), EOI>>
BadTiff == <<SOI, EXIF(FALSE, FALSE, "", <<>>), DQT, SOF(4, 3, 3), SOS(14), EOI>>
NoTag == <<SOI, EXIF(TRUE, FALSE, "", <<>>), DQT, SOF(4, 3, 3), SOS(15), EOI>>
Trailing == <<SOI, EXIF(TRUE, TRUE, "SHORT", <<8>>), DQT, SOF(4, 3, 4), SOS(16), EOI, PAD>>
NotJpeg == <<PAD, PAD>>
NoFrame == <<SOI, APP0, DQT, EOI>>
Upright == Tagged("SHORT", <<1>>, 4, 3)
Rotated == Tagged("SHORT", <<6>>, 4, 3)
CutOff == <<SOI, EXIF(TRUE, TRUE, "SHORT", <<6>>), SOF(4, 3, 3), CUT>>
\* an APP1 segment that is not EXIF after the EXIF one, alone, and two EXIF ones
WithXmp == <<SOI, APP0, EXIF(TRUE, TRUE, "SHORT", <<6>>), XMP, DQT, SOF(4, 3, 3), SOS(17), EOI>>
XmpOnly == <<SOI, XMP, DQT, SOF(4, 3, 3), SOS(18), EOI>>
TwoExif == <<SOI, EXIF(TRUE, TRUE, "SHORT", <<6>>), EXIF(TRUE, TRUE, "SHORT", <<3>>),
             DQT, SOF(4, 3, 3), SOS(19), EOI>>

\* the buffers add_image is fed
Images == { Plain, NotJpeg, CutOff }

\* the arguments of add_images
Batches == { <<>>, <<Grey, Rotated>> }

\* the buffers a one-image document is built from
Samples ==
  Images \cup
  { Grey, Rotated, Trailing, BadTiff, NoTag, NoFrame, Upright,
    WithXmp, XmpOnly, TwoExif,
    Tagged("SHORT", <<3>>, 4, 3),
    Tagged("BYTE", <<5>>, 2, 5),
    Tagged("SHORT", <<0>>, 4, 3),
    Tagged("SHORT", <<MaxCode>>, 4, 3),
    Tagged("LONG", <<70000>>, 4, 3),
    Tagged("ASCII", <<6>>, 4, 3),
    Tagged("RATIONAL", <<6>>, 4, 3),
    Tagged("SHORT", <<>>, 4, 3) }

(***************************************************************************)
(* Result<T, E>                                                            *)
(***************************************************************************)
Ok(x)  == [ok |-> TRUE, v |-> x, cause |-> ""]
Err(c) == [ok |-> FALSE, v |-> <<>>, cause |-> c]

(***************************************************************************)
(* jpeg_decoder: Decoder::read_info + Decoder::info (lib.rs 132-135).      *)
(* The buffer must open with SOI; markers are read up to the first frame   *)
(* header, stray bytes before a marker are skipped; the end of the image   *)
(* or of the data, or a cut-off segment, before any frame is an error.     *)
(***************************************************************************)
RECURSIVE ScanFrame(_, _)
ScanFrame(b, i) ==
  IF i > Len(b) THEN Err("ImageInfo")
  ELSE CASE b[i].k = "PAD" -> ScanFrame(b, i + 1)
         [] b[i].k = "SEG" /\ b[i].m = "SOF0" ->
              Ok([width |-> b[i].w, height |-> b[i].h,
                  pixel_format |-> CASE b[i].comps = 1 -> "L8"
                                     [] b[i].comps = 3 -> "RGB24"
                                     [] OTHER -> "CMYK32"])
         [] b[i].k = "SEG" /\ b[i].m = "SOS" -> Err("ImageInfo")
         [] b[i].k = "SEG" -> ScanFrame(b, i + 1)
         [] OTHER -> Err("ImageInfo")

read_info(b) ==
  IF Len(b) = 0 \/ b[1].k # "SOI" THEN Err("ImageInfo") ELSE ScanFrame(b, 2)

(***************************************************************************)
(* img_parts: Jpeg::from_bytes (lib.rs 138).  The buffer must open with    *)
(* SOI; the segments are collected up to EOI or the end of the data,       *)
(* stray bytes between segments are skipped, a cut-off segment is an       *)
(* error.  The value is the list of segments.                              *)
(***************************************************************************)
RECURSIVE ScanSegments(_, _, _)
ScanSegments(b, i, acc) ==
  IF i > Len(b) THEN Ok(acc)
  ELSE CASE b[i].k = "PAD" -> ScanSegments(b, i + 1, acc)
         [] b[i].k = "EOI" -> Ok(acc)
         [] b[i].k = "SEG" -> ScanSegments(b, i + 1, Append(acc, b[i]))
         [] OTHER -> Err("ImageSections")

from_bytes(b) ==
  IF Len(b) = 0 \/ b[1].k # "SOI" THEN Err("ImageSections")
  ELSE ScanSegments(b, 2, <<>>)

\* Jpeg::encoder().write_to (lib.rs 159-160): SOI, the segments, EOI
encode(segments) == <<SOI>> \o segments \o <<EOI>>

IsExif(c) == c.k = "SEG" /\ c.m = "APP1" /\ c.exif

\* ImageEXIF::exif (lib.rs 140-141): the first EXIF segment, if any
exif(segments) ==
  LET e == SelectSeq(segments, IsExif)
  IN  IF Len(e) = 0 THEN None ELSE Some(e[1])

\* What set_exif(None) removes is settled inside img_parts, not by lib.rs:
\* "exif" removes the APP1 segments that carry EXIF data, "app1" removes
\* every APP1 segment by its marker.  The linked crate does one of the two.
Removals == { "exif", "app1" }

\* ImageEXIF::set_exif(None) (lib.rs 156) of a crate that removes by removes
set_exif_none(segments, removes) ==
  LET Keep(c) == IF removes = "app1" THEN ~(c.k = "SEG" /\ c.m = "APP1")
                 ELSE ~IsExif(c)
  IN  SelectSeq(segments, Keep)

(***************************************************************************)
(* exif: Reader::read_raw(..).ok(), get_field(Tag::Orientation,            *)
(* In::PRIMARY), Value::get_uint(0)  (lib.rs 142-146)                      *)
(***************************************************************************)
read_raw(seg) == IF seg.tiff THEN Some(seg) ELSE None

get_field(e) == IF e.tag THEN Some(e) ELSE None

get_uint(field, index) ==
  IF field.type \in {"BYTE", "SHORT", "LONG"} /\ Len(field.vals) > index
  THEN Some(field.vals[index + 1])
  ELSE None

\* Option::unwrap_or
unwrap_or(opt, d) == IF opt.some THEN opt.v ELSE d

\* the orientation lookup falling back to 0, the default of u32
resolve_default_zero(segments) ==
  LET segment == exif(segments)
      parsed == IF segment.some THEN read_raw(segment.v) ELSE None
      field == IF parsed.some THEN get_field(parsed.v) ELSE None
      value == IF field.some THEN get_uint(field.v, 0) ELSE None
  IN  unwrap_or(value, 0)

\* lib.rs 140-147: the orientation code of a parsed container; each
\* and_then passes a None on
resolve(segments) ==
  LET segment == exif(segments)
      parsed == IF segment.some THEN read_raw(segment.v) ELSE None
      field == IF parsed.some THEN get_field(parsed.v) ELSE None
      value == IF field.some THEN get_uint(field.v, 0) ELSE None
  IN  unwrap_or(value, 1)

(***************************************************************************)
(* printpdf: Px(px).into_pt(dpi), the length px * 72 / dpi in points       *)
(***************************************************************************)
RECURSIVE Gcd(_, _)
Gcd(a, b) == IF b = 0 THEN a ELSE Gcd(b, a % b)

into_pt(px, d) ==
  LET g == Gcd(px * 72, d)
  IN  [num |-> (px * 72) \div g, den |-> d \div g]

\* Option::map(|px| Px(px).into_pt(dpi).into())
map_pt(opt, d) ==
  [some |-> opt.some, v |-> into_pt(IF opt.some THEN opt.v ELSE 0, d)]

(***************************************************************************)
(* lib.rs 126-196: add_page.  The value is Ok(the page added to the        *)
(* document) or Err(cause); a failing call adds nothing.                   *)
(***************************************************************************)
ColorSpace(pixel_format) ==
  CASE pixel_format = "L8" -> "Greyscale"
    [] pixel_format = "RGB24" -> "Rgb"
    [] pixel_format = "CMYK32" -> "Cmyk"

\* the page sized by the raw pixel size instead of the oriented one
Page_raw_size(info, o, image_data, d) ==
  [width |-> into_pt(info.width, d),
   height |-> into_pt(info.height, d),
   image |-> [width |-> info.width,
              height |-> info.height,
              color_space |-> ColorSpace(info.pixel_format),
              bits_per_component |-> 8,
              image_data |-> image_data,
              image_filter |-> "DCT"],
   translate_x |-> map_pt(translate_x(o), d),
   translate_y |-> map_pt(translate_y(o), d),
   rotate_cw |-> rotate_cw(o),
   scale_x |-> scale_x(o),
   dpi |-> d]

\* lib.rs 162-191: the page doc.add_page creates and the image placed on it
Page(info, o, image_data, d) ==
  [width  |-> into_pt(display_width(o), d),
   height |-> into_pt(display_height(o), d),
   image  |-> [width  |-> info.width,
               height |-> info.height,
               color_space |-> ColorSpace(info.pixel_format),
               bits_per_component |-> 8,
               image_data |-> image_data,
               image_filter |-> "DCT"],
   translate_x |-> map_pt(translate_x(o), d),
   translate_y |-> map_pt(translate_y(o), d),
   rotate_cw |-> rotate_cw(o),
   scale_x |-> scale_x(o),
   dpi |-> d]

\* add_page removing the EXIF segment whatever strip_exif says
add_page_always_strips(image, d, strip, removes) ==
  CHOOSE r \in
    { IF ~info.ok THEN Err(info.cause)
      ELSE IF ~jpeg.ok THEN Err(jpeg.cause)
      ELSE CHOOSE ok \in
             { Ok(Page(info.v, o, encode(segments), d)) :
               o \in {Orientation(resolve(jpeg.v), info.v.width, info.v.height)},
               segments \in {set_exif_none(jpeg.v, removes)} } : TRUE :
      info \in {read_info(image)}, jpeg \in {from_bytes(image)} } : TRUE

\* add_page with the EXIF segment removed before the orientation is read
add_page_strip_first(image, d, strip, removes) ==
  CHOOSE r \in
    { IF ~info.ok THEN Err(info.cause)
      ELSE IF ~jpeg.ok THEN Err(jpeg.cause)
      ELSE CHOOSE ok \in
             { Ok(Page(info.v,
                       Orientation(resolve(segments), info.v.width, info.v.height),
                       encode(segments), d)) :
               segments \in {IF strip THEN set_exif_none(jpeg.v, removes) ELSE jpeg.v} } : TRUE :
      info \in {read_info(image)}, jpeg \in {from_bytes(image)} } : TRUE

\* info is decoder.info() after read_info, jpeg the parsed container, o the
\* Orientation read from it before the EXIF segment is removed, segments
\* what the encoder writes, removes the behaviour of the linked img_parts
add_page(image, d, strip, removes) ==
  CHOOSE r \in
    { IF ~info.ok THEN Err(info.cause)
      ELSE IF ~jpeg.ok THEN Err(jpeg.cause)
      ELSE CHOOSE ok \in
             { Ok(Page(info.v, o, encode(segments), d)) :
               o \in {Orientation(resolve(jpeg.v), info.v.width, info.v.height)},
               segments \in {IF strip THEN set_exif_none(jpeg.v, removes) ELSE jpeg.v} } : TRUE :
      info \in {read_info(image)}, jpeg \in {from_bytes(image)} } : TRUE

(***************************************************************************)
(* lib.rs 111-116: try_for_each over the enumerated images.  acc holds     *)
(* the pages added so far and the indices add_page was called with.        *)
(***************************************************************************)
NoError == [ok |-> TRUE, index |-> 0, cause |-> ""]
Error(index, cause) == [ok |-> FALSE, index |-> index, cause |-> cause]

\* for_each in place of try_for_each: the first error is kept, the loop goes on
RECURSIVE for_each_keep_first(_, _, _, _, _, _)
for_each_keep_first(imgs, k, d, strip, removes, acc) ==
  IF k > Len(imgs) THEN acc
  ELSE CHOOSE next \in
         { for_each_keep_first(imgs, k + 1, d, strip, removes,
             IF r.ok
             THEN [pages |-> Append(acc.pages, r.v),
                   processed |-> Append(acc.processed, k - 1),
                   result |-> acc.result]
             ELSE [pages |-> acc.pages,
                   processed |-> Append(acc.processed, k - 1),
                   result |-> IF acc.result.ok THEN Error(k - 1, r.cause)
                              ELSE acc.result]) :
           r \in {add_page(imgs[k], d, strip, removes)} } : TRUE

RECURSIVE try_for_each(_, _, _, _, _, _)
try_for_each(imgs, k, d, strip, removes, acc) ==
  IF k > Len(imgs) THEN acc
  ELSE CHOOSE next \in
         { IF r.ok
           THEN try_for_each(imgs, k + 1, d, strip, removes,
                  [pages |-> Append(acc.pages, r.v),
                   processed |-> Append(acc.processed, k - 1),
                   result |-> NoError])
           ELSE [pages |-> acc.pages,
                 processed |-> Append(acc.processed, k - 1),
                 result |-> Error(k - 1, r.cause)] :
           r \in {add_page(imgs[k], d, strip, removes)} } : TRUE

(***************************************************************************)
(* The output: out: &mut BufWriter<impl Write> (lib.rs 104).  The sink     *)
(* behind the BufWriter is [failing, cap]: a failing sink accepts cap      *)
(* chunks in all and answers every later write with an error.  The         *)
(* BufWriter holds up to room chunks and writes them to the sink when the  *)
(* next chunk does not fit; with room 0 every chunk goes straight through. *)
(* A writer is [ok, out, buffered]: no error so far, the chunks that       *)
(* reached the sink, the chunks still held.                                *)
(***************************************************************************)
\* Write::write_all on the sink, for the chunks held and one more sequence
Sink(w, chunks, s) ==
  CHOOSE r \in
    { [ok |-> n = Len(chunks),
       out |-> w.out \o SubSeq(chunks, 1, n),
       buffered |-> SubSeq(chunks, n + 1, Len(chunks))] :
      n \in { IF ~s.failing THEN Len(chunks)
              ELSE IF s.cap - Len(w.out) >= Len(chunks) THEN Len(chunks)
              ELSE IF s.cap - Len(w.out) <= 0 THEN 0
              ELSE s.cap - Len(w.out) } } : TRUE

\* BufWriter::flush: what is held goes to the sink
flush(w, s) == Sink(w, w.buffered, s)

\* BufWriter::write_all of bytes[i..]: a chunk that fits is held; otherwise
\* what is held is written out first, and an error there ends the writing
RECURSIVE write_all(_, _, _, _, _)
write_all(bytes, i, w, room, s) ==
  IF i > Len(bytes) THEN w
  ELSE IF Len(w.buffered) < room
  THEN write_all(bytes, i + 1,
                 [ok |-> TRUE, out |-> w.out,
                  buffered |-> Append(w.buffered, bytes[i])], room, s)
  ELSE CHOOSE r \in
         { IF ~f.ok THEN f
           ELSE IF room > 0
           THEN write_all(bytes, i + 1,
                          [ok |-> TRUE, out |-> f.out, buffered |-> <<bytes[i]>>],
                          room, s)
           ELSE CHOOSE q \in
                  { IF ~d.ok THEN [ok |-> FALSE, out |-> d.out, buffered |-> <<>>]
                    ELSE write_all(bytes, i + 1, d, room, s) :
                    d \in {Sink(f, <<bytes[i]>>, s)} } : TRUE :
           f \in {flush(w, s)} } : TRUE

(***************************************************************************)
(* printpdf: PdfDocumentReference::save (lib.rs 118).  The document is     *)
(* written to out as its information record followed by its pages; what    *)
(* the BufWriter still holds when save returns has not reached the sink.   *)
(***************************************************************************)
Serialized(title, created, modified, pgs) ==
  <<[title |-> title, creation_date |-> created, mod_date |-> modified]>>
    \o [i \in 1..Len(pgs) |-> [page |-> pgs[i]]]

save(bytes, room, s) ==
  write_all(bytes, 1, [ok |-> TRUE, out |-> <<>>, buffered |-> <<>>], room, s)

(***************************************************************************)
(* errors.rs: Display for Cause and for Error.  A message is the sequence  *)
(* of the pieces the format string puts together.                          *)
(***************************************************************************)
Inner(cause) ==
  CASE cause = "ImageInfo" -> "<jpeg_decoder::Error>"
    [] cause = "ImageSections" -> "<img_parts::Error>"
    [] cause = "PdfWrite" -> "<printpdf::Error>"
    [] OTHER -> ""

DisplayCause(cause) ==
  CASE cause = "ImageInfo" -> <<"failed to read image info: ", Inner(cause)>>
    [] cause = "UnexpectedImageInfo" -> <<"unexpectedly failed to read image info">>
    [] cause = "ImageSections" -> <<"failed to read image sections: ", Inner(cause)>>
    [] cause = "PdfWrite" -> <<"failed to write PDF: ", Inner(cause)>>

\* Display for Error without the index prefix
DisplayError_cause_only(e) == DisplayCause(e.cause)

DisplayError(e) ==
  IF e.cause = "PdfWrite" THEN DisplayCause(e.cause)
  ELSE <<"error with JPEG index ", ToString(e.index), ": ">> \o DisplayCause(e.cause)

(***************************************************************************)
(* lib.rs 38-101: JpegToPdf and its builder methods, on the record of      *)
(* the struct's fields                                                     *)
(***************************************************************************)
Clock == {100, 101}     \* instants OffsetDateTime::now_utc() returns
Dpis == {150}           \* arguments of set_dpi
Titles == {"a"}         \* arguments of set_document_title
Dates == {1}            \* arguments of set_creation_date and set_mod_date

\* new(): first and second are the two readings of the clock, one for
\* creation_date (lib.rs 54) and one for mod_date (lib.rs 55)
new(first, second) ==
  [images |-> <<>>, dpi |-> 300, strip_exif |-> FALSE, document_title |-> "",
   creation_date |-> first, mod_date |-> second]

add_image(self, image) == [self EXCEPT !.images = Append(@, image)]

\* the list replaced by the batch instead of extended with it
add_images_replacing(self, imgs) == [self EXCEPT !.images = imgs]

add_images(self, imgs) == [self EXCEPT !.images = @ \o imgs]

set_dpi(self, d) == [self EXCEPT !.dpi = d]

set_strip_exif(self, b) == [self EXCEPT !.strip_exif = b]

set_document_title(self, t) == [self EXCEPT !.document_title = t]

set_creation_date(self, t) == [self EXCEPT !.creation_date = t]

set_mod_date(self, t) == [self EXCEPT !.mod_date = t]

(***************************************************************************)
(* lib.rs 104-123: create_pdf.  room and s describe the BufWriter out and  *)
(* the sink behind it, removes the linked img_parts.  The value is what    *)
(* the call leaves behind: the pages of the document, the indices          *)
(* add_page was called with, the number of calls of the writer, the        *)
(* chunks that reached the sink, the chunks out still holds, and the       *)
(* returned Result.                                                        *)
(***************************************************************************)
\* lib.rs 117-122: and_then over the outcome of the loop
Finish(self, composed, room, s, index) ==
  IF ~composed.result.ok
  THEN [pages |-> composed.pages, processed |-> composed.processed,
        saves |-> 0, out |-> <<>>, buffered |-> <<>>,
        result |-> composed.result]
  ELSE CHOOSE r \in
         { [pages |-> composed.pages, processed |-> composed.processed,
            saves |-> 1, out |-> w.out, buffered |-> w.buffered,
            result |-> IF w.ok THEN NoError ELSE Error(index, "PdfWrite")] :
           w \in {save(Serialized(self.document_title, self.creation_date,
                                  self.mod_date, composed.pages), room, s)} } : TRUE

\* create_pdf attributing a writer failure to the last image
create_pdf_last_index(self, room, s, removes) ==
  CHOOSE r \in
    { Finish(self, composed, room, s, Len(composed.pages) - 1) :
      composed \in {try_for_each(self.images, 1, self.dpi, self.strip_exif, removes,
                      [pages |-> <<>>, processed |-> <<>>, result |-> NoError])} } : TRUE

create_pdf(self, room, s, removes) ==
  CHOOSE r \in
    { Finish(self, composed, room, s, 0) :
      composed \in {try_for_each(self.images, 1, self.dpi, self.strip_exif, removes,
                      [pages |-> <<>>, processed |-> <<>>, result |-> NoError])} } : TRUE

(***************************************************************************)
(* State.  images .. mod_date are the fields of the builder; now_utc is    *)
(* the pair of instants the clock returned to new(); calls is the history  *)
(* of the builder calls made on it; pc is "building" until create_pdf      *)
(* consumes the builder, "done" once it has returned and "exited" once     *)
(* the caller has reported the outcome and left.  out is what reached the  *)
(* sink, buffered what the BufWriter holds, sink the sink create_pdf was   *)
(* given.  The fields keep the consumed configuration after create_pdf.    *)
(***************************************************************************)
Self ==
  [images |-> images, dpi |-> dpi, strip_exif |-> strip_exif,
   document_title |-> document_title, creation_date |-> creation_date,
   mod_date |-> mod_date]

Is(self) ==
  /\ images = self.images
  /\ dpi = self.dpi
  /\ strip_exif = self.strip_exif
  /\ document_title = self.document_title
  /\ creation_date = self.creation_date
  /\ mod_date = self.mod_date

Becomes(self) ==
  /\ images' = self.images
  /\ dpi' = self.dpi
  /\ strip_exif' = self.strip_exif
  /\ document_title' = self.document_title
  /\ creation_date' = self.creation_date
  /\ mod_date' = self.mod_date

Call(op, imgs, n, b, t) == [op |-> op, imgs |-> imgs, n |-> n, b |-> b, t |-> t]

Logged(call) ==
  /\ pc = "building"
  /\ Len(calls) < MaxCalls
  /\ calls' = Append(calls, call)
  /\ UNCHANGED <<now_utc, pc, run, ori, geom>>

\* a sink that takes everything, and the sinks that fail after cap chunks
NoSink == [failing |-> FALSE, cap |-> 0]
Sinks == {NoSink} \cup {[failing |-> TRUE, cap |-> c] : c \in 0..MaxSink}

\* the room of the BufWriter: none, little, or enough for a whole document
Rooms == 0..MaxRoom \cup {64}

Idle ==
  /\ pc = "building"
  /\ pages = <<>> /\ processed = <<>> /\ saves = 0
  /\ out = <<>> /\ buffered = <<>> /\ sink = NoSink
  /\ result = NoError /\ stderr = <<>> /\ exit_code = 0

Fresh ==
  /\ Idle
  /\ ori = Orientation(1, 1, 1) /\ geom = <<>>

Init ==
  /\ \E first \in Clock, second \in Clock :
       /\ now_utc = <<first, second>>
       /\ Is(new(first, second))
  /\ calls = <<>>
  /\ Fresh

AddImage ==
  \E image \in Images :
    /\ Logged(Call("add_image", <<image>>, 0, FALSE, ""))
    /\ Becomes(add_image(Self, image))

AddImages ==
  \E imgs \in Batches :
    /\ Logged(Call("add_images", imgs, 0, FALSE, ""))
    /\ Becomes(add_images(Self, imgs))

SetDpi ==
  \E d \in Dpis :
    /\ Logged(Call("set_dpi", <<>>, d, FALSE, ""))
    /\ Becomes(set_dpi(Self, d))

StripExif ==
  \E b \in BOOLEAN :
    /\ Logged(Call("strip_exif", <<>>, 0, b, ""))
    /\ Becomes(set_strip_exif(Self, b))

SetDocumentTitle ==
  \E t \in Titles :
    /\ Logged(Call("set_document_title", <<>>, 0, FALSE, t))
    /\ Becomes(set_document_title(Self, t))

SetCreationDate ==
  \E t \in Dates :
    /\ Logged(Call("set_creation_date", <<>>, t, FALSE, ""))
    /\ Becomes(set_creation_date(Self, t))

SetModDate ==
  \E t \in Dates :
    /\ Logged(Call("set_mod_date", <<>>, t, FALSE, ""))
    /\ Becomes(set_mod_date(Self, t))

CreatePdf ==
  /\ pc = "building"
  /\ \E s \in Sinks, room \in Rooms, removes \in Removals :
       \E r \in {create_pdf(Self, room, s, removes)} :
           /\ pages' = r.pages
           /\ processed' = r.processed
           /\ saves' = r.saves
           /\ out' = r.out
           /\ buffered' = r.buffered
           /\ result' = r.result
           /\ sink' = s
  /\ pc' = "done"
  /\ UNCHANGED <<builder, now_utc, calls, stderr, exit_code, ori, geom>>

\* cli.rs 58-63: on Err the caller prints the Error and leaves through
\* process::exit(-1), which drops what the BufWriter holds; on Ok it
\* flushes the BufWriter, and an error of the flush is returned from main,
\* printed by the runtime, with exit code 1
Report ==
  /\ pc = "done"
  /\ IF ~result.ok
     THEN /\ stderr' = DisplayError(result)
          /\ exit_code' = -1
          /\ UNCHANGED <<out, buffered>>
     ELSE \E f \in {flush([ok |-> TRUE, out |-> out, buffered |-> buffered], sink)} :
            /\ out' = f.out
            /\ buffered' = f.buffered
            /\ stderr' = IF f.ok THEN <<>> ELSE <<"Error: ", "<io::Error>">>
            /\ exit_code' = IF f.ok THEN 0 ELSE 1
  /\ pc' = "exited"
  /\ UNCHANGED <<builder, now_utc, calls, pages, processed, saves, sink, result,
                 ori, geom>>

Next ==
  \/ AddImage
  \/ AddImages
  \/ SetDpi
  \/ StripExif
  \/ SetDocumentTitle
  \/ SetCreationDate
  \/ SetModDate
  \/ CreatePdf
  \/ Report

Spec == Init /\ [][Next]_vars

(***************************************************************************)
(* One-image documents: every sample buffer, under every dpi and either    *)
(* strip_exif setting, built by add_image, strip_exif and set_dpi.         *)
(***************************************************************************)
InitPage ==
  /\ \E first \in Clock, second \in Clock, image \in Samples, b \in BOOLEAN,
        d \in {72, 150, 300} :
       /\ now_utc = <<first, second>>
       /\ Is(set_dpi(set_strip_exif(add_image(new(first, second), image), b), d))
       /\ calls = <<Call("add_image", <<image>>, 0, FALSE, ""),
                    Call("strip_exif", <<>>, 0, b, ""),
                    Call("set_dpi", <<>>, d, FALSE, "")>>
  /\ Fresh

NextPage == CreatePdf \/ Report

SpecPage == InitPage /\ [][NextPage]_vars

(***************************************************************************)
(* The accessors on their own: an Orientation drawn from the codes and     *)
(* the dimensions, and the six values read from it.                        *)
(***************************************************************************)
Codes == 0..MaxCode \cup {65535, 70000}
Dims == 1..MaxDim

InitOri ==
  /\ \E first \in Clock, second \in Clock :
       /\ now_utc = <<first, second>>
       /\ Is(new(first, second))
  /\ calls = <<>>
  /\ Idle
  /\ ori \in {Orientation(c, w, h) : c \in Codes, w \in Dims, h \in Dims}
  /\ geom = <<>>

Evaluate ==
  /\ geom = <<>>
  /\ geom' = <<OrientationData(ori)>>
  /\ UNCHANGED <<builder, now_utc, calls, pc, run, ori>>

NextOri == Evaluate

SpecOri == InitOri /\ [][NextOri]_vars

(***************************************************************************)
(* Properties                                                              *)
(***************************************************************************)
Row(dw, dh, tx, ty, rot, mir) ==
  [display_width |-> dw, display_height |-> dh, translate_x |-> tx,
   translate_y |-> ty, rotate_cw |-> rot, scale_x |-> mir]

\* the table of orientation codes: display size, translation, rotation, mirror
GeometryTable(c, w, h) ==
  CASE c = 2 -> Row(w, h, Some(w), None,    None,      Some(-1))
    [] c = 3 -> Row(w, h, Some(w), Some(h), Some(180), None)
    [] c = 4 -> Row(w, h, None,    Some(h), Some(180), Some(-1))
    [] c = 5 -> Row(h, w, Some(h), Some(w), Some(90),  Some(-1))
    [] c = 6 -> Row(h, w, None,    Some(w), Some(270), None)
    [] c = 7 -> Row(h, w, None,    None,    Some(270), Some(-1))
    [] c = 8 -> Row(h, w, Some(h), None,    Some(90),  None)
    [] OTHER -> Row(w, h, None,    None,    None,      None)

\* C1: for every orientation code and positive width and height the six
\* accessors return the row of the table; code 1 and every code outside 1..8
\* give the identity row.
C1_AccessorsMatchTable ==
  geom # <<>> => geom[1] = GeometryTable(ori.value, ori.width, ori.height)

\* C1 witness: the accessors were read for code 6 on a non-square image
C1_Witness ==
  /\ geom # <<>>
  /\ ori.value = 6 /\ ori.width # ori.height
  /\ geom[1].translate_y = Some(ori.width)

\* the k-th image composes: its header decodes and its container parses
Composes(k) == read_info(images[k]).ok /\ from_bytes(images[k]).ok

\* the oriented display size, in pixels, of the k-th image
Oriented(k) ==
  LET info == read_info(images[k]).v
      o    == Orientation(resolve(from_bytes(images[k]).v), info.width, info.height)
  IN  [width |-> display_width(o), height |-> display_height(o),
       raw_width |-> info.width, raw_height |-> info.height]

\* the fraction pt is px * 72 / d
IsPoints(pt, px, d) == pt.den > 0 /\ pt.num * d = px * 72 * pt.den

\* C2: when every image composes, create_pdf adds one page per image in the
\* order of the images, the k-th page measuring the k-th image's oriented
\* display size times 72 / dpi and holding the k-th image's compressed
\* data, and the writer is handed that document.
C2_OnePagePerImage ==
  (pc # "building" /\ \A k \in 1..Len(images) : Composes(k)) =>
     /\ Len(pages) = Len(images)
     /\ saves = 1
     /\ \A k \in 1..Len(images) :
          /\ IsPoints(pages[k].width, Oriented(k).width, dpi)
          /\ IsPoints(pages[k].height, Oriented(k).height, dpi)
          /\ pages[k].image.width = Oriented(k).raw_width
          /\ pages[k].image.height = Oriented(k).raw_height
          /\ LET IsScan(c) == c.m = "SOS"
             IN  SelectSeq(pages[k].image.image_data, IsScan)
                   = SelectSeq(images[k], IsScan)

\* C2 witness: three images of different page sizes composed at dpi 150
C2_Witness ==
  /\ pc = "done" /\ Len(images) = 3 /\ Len(pages) = 3 /\ dpi = 150
  /\ pages[1].width # pages[2].width
  /\ pages[2].width # pages[3].width

\* the first image, if any, that does not compose
Failing == {k \in 1..Len(images) : ~Composes(k)}
FirstFailing == CHOOSE k \in Failing : \A j \in Failing : k <= j

\* C3: if some image fails to compose, create_pdf returns an Error with the
\* zero-based index of the first failing image, calls add_page for no later
\* image, never calls the writer and writes nothing to the BufWriter or
\* to the sink, then or later.
C3_FailFast ==
  (pc # "building" /\ Failing # {}) =>
     /\ ~result.ok
     /\ result.index = FirstFailing - 1
     /\ result.cause \in {"ImageInfo", "ImageSections"}
     /\ processed = [i \in 1..FirstFailing |-> i - 1]
     /\ Len(pages) = FirstFailing - 1
     /\ saves = 0
     /\ out = <<>>
     /\ buffered = <<>>

\* C3 witness: the second of three images failed and a third was left alone
C3_Witness ==
  /\ pc = "done" /\ Len(images) = 3
  /\ ~result.ok /\ result.index = 1
  /\ processed = <<0, 1>>

\* C4: the writer fails only after every image was composed; its failure is
\* the Error with cause PdfWrite and index 0 whatever the number of images,
\* and an Error with a per-image cause never comes with a call of the writer.
C4_WriterFailure ==
  pc # "building" =>
     /\ saves = 1 =>
          /\ Len(pages) = Len(images)
          /\ processed = [i \in 1..Len(images) |-> i - 1]
     /\ (~result.ok /\ result.cause = "PdfWrite") =>
          /\ saves = 1
          /\ result.index = 0
     /\ (~result.ok /\ result.cause # "PdfWrite") => saves = 0
     /\ (~result.ok /\ result.cause = "PdfWrite") =>
          (sink.failing /\ Len(out) = sink.cap /\ Len(out) < Len(pages) + 1)

\* C4 witness: the writer failed on a document of three pages
C4_Witness ==
  /\ pc = "done" /\ Len(images) = 3 /\ Len(pages) = 3
  /\ ~result.ok /\ result.cause = "PdfWrite" /\ result.index = 0

\* the message names the index the Error carries
NamesIndex ==
  \E i \in 1..(Len(stderr) - 1) :
    stderr[i] = "error with JPEG index " /\ stderr[i + 1] = ToString(result.index)

\* the message ends with the text of the Error's cause
NamesCause ==
  LET text == DisplayCause(result.cause)
  IN  /\ Len(stderr) >= Len(text)
      /\ SubSeq(stderr, Len(stderr) - Len(text) + 1, Len(stderr)) = text

\* C5 as stated: the message of every Error create_pdf returns, PdfWrite
\* included, names both the image index and the cause.
C5_MessageNamesIndexAndCause ==
  (pc = "exited" /\ ~result.ok) => (NamesIndex /\ NamesCause)

\* C5 amended: the message of every Error names the cause; it names the
\* image index as well unless the cause is PdfWrite, whose message is the
\* text of the cause alone.
C5_MessageNamesCause ==
  (pc = "exited" /\ ~result.ok) =>
     /\ NamesCause
     /\ result.cause # "PdfWrite" => NamesIndex
     /\ result.cause = "PdfWrite" => (~NamesIndex /\ stderr = DisplayCause("PdfWrite"))

\* C5 witness: the error of the third image was reported
C5_Witness ==
  /\ pc = "exited" /\ ~result.ok
  /\ result.cause = "ImageSections" /\ result.index = 2
  /\ stderr[2] = "2"

\* the payload embedded for the k-th image
Payload(k) == pages[k].image.image_data

\* the marker segments of buffer b that precede its EOI marker
SegmentsOf(b) ==
  LET ends == {i \in 1..Len(b) : b[i].k = "EOI"}
      last == IF ends = {} THEN Len(b)
              ELSE (CHOOSE i \in ends : \A j \in ends : i <= j) - 1
      IsSeg(c) == c.k = "SEG"
  IN  SelectSeq(SubSeq(b, 2, last), IsSeg)

\* buffer b is SOI, marker segments, EOI and nothing else
Canonical(b) ==
  /\ Len(b) >= 2 /\ b[1].k = "SOI" /\ b[Len(b)].k = "EOI"
  /\ \A i \in 2..(Len(b) - 1) : b[i].k = "SEG"

HasExif(b) == \E i \in 1..Len(b) : IsExif(b[i])

\* C6 as stated: with strip_exif = false the payload embedded for each image
\* is the input buffer itself.
C6_PayloadIsInput ==
  (pc # "building" /\ ~strip_exif) =>
     \A k \in 1..Len(pages) : Payload(k) = images[k]

\* C6 amended: with strip_exif = false the payload embedded for each image is
\* the parsed container written out again: SOI, every marker segment of the
\* input up to its EOI, in order and with unchanged contents, then EOI; it is
\* the input buffer when the input holds nothing but these.
C6_PayloadIsReserialized ==
  (pc # "building" /\ ~strip_exif) =>
     \A k \in 1..Len(pages) :
        /\ Payload(k) = <<SOI>> \o SegmentsOf(images[k]) \o <<EOI>>
        /\ Canonical(images[k]) => Payload(k) = images[k]

\* C6 witness: an image with an EXIF segment embedded unstripped, byte for byte
C6_Witness ==
  /\ pc = "done" /\ ~strip_exif /\ Len(pages) = 1
  /\ HasExif(images[1]) /\ HasExif(Payload(1))
  /\ Payload(1) = images[1]

\* an APP1 segment of buffer b that carries no EXIF data
HasOtherApp1(b) ==
  \E i \in 1..Len(b) : b[i].k = "SEG" /\ b[i].m = "APP1" /\ ~IsExif(b[i])

\* C7: with strip_exif = true the payload embedded for each image holds no
\* EXIF segment, and is otherwise the payload embedded for the same input
\* with strip_exif = false.  The first half holds whichever way the linked
\* img_parts removes; the second half holds of an image with an APP1 segment
\* that is not EXIF only if the crate leaves that segment alone.
C7_StrippedPayload ==
  (pc # "building" /\ strip_exif) =>
     \A k \in 1..Len(pages) :
        \A removes \in Removals :
           LET unstripped ==
                 add_page(images[k], dpi, FALSE, removes).v.image.image_data
               NotExif(c) == ~IsExif(c)
           IN  /\ ~HasExif(Payload(k))
               /\ Payload(k) = SelectSeq(unstripped, NotExif)

\* C7, first half alone: no stripped payload holds an EXIF segment
C7_NoExifLeft ==
  (pc # "building" /\ strip_exif) =>
     \A k \in 1..Len(pages) : ~HasExif(Payload(k))

\* an image with EXIF and another APP1 segment, stripped: the other segment
\* is kept by a crate that removes EXIF data only
C7_OtherApp1Kept ==
  /\ pc = "done" /\ strip_exif /\ Len(pages) = 1
  /\ HasExif(images[1]) /\ HasOtherApp1(images[1])
  /\ ~HasExif(Payload(1)) /\ HasOtherApp1(Payload(1))

\* the same image stripped by a crate that removes by marker
C7_OtherApp1Dropped ==
  /\ pc = "done" /\ strip_exif /\ Len(pages) = 1
  /\ HasExif(images[1]) /\ HasOtherApp1(images[1])
  /\ ~HasExif(Payload(1)) /\ ~HasOtherApp1(Payload(1))

\* the orientation code of buffer b by the five cases: no EXIF segment, an
\* EXIF segment that does not parse, no orientation field, a field without
\* an unsigned integer value, and otherwise the field's value
ExpectedCode(b) ==
  LET at == {i \in 1..Len(b) : IsExif(b[i])}
      e  == b[CHOOSE i \in at : \A j \in at : i <= j]
  IN  CASE at = {} -> 1
        [] ~e.tiff -> 1
        [] ~e.tag -> 1
        [] e.type \notin {"BYTE", "SHORT", "LONG"} \/ e.vals = <<>> -> 1
        [] OTHER -> e.vals[1]

\* the placement of a page is that of table row g at d dots per inch
PlacedAs(page, g, d) ==
  /\ IsPoints(page.width, g.display_width, d)
  /\ IsPoints(page.height, g.display_height, d)
  /\ page.translate_x.some = g.translate_x.some
  /\ page.translate_y.some = g.translate_y.some
  /\ g.translate_x.some => IsPoints(page.translate_x.v, g.translate_x.v, d)
  /\ g.translate_y.some => IsPoints(page.translate_y.v, g.translate_y.v, d)
  /\ page.rotate_cw = g.rotate_cw
  /\ page.scale_x = g.scale_x

\* C9: for an image whose header decodes and whose container parses, the
\* resolved code is 1 without an EXIF segment, with one that does not parse,
\* without the orientation field or with a field that is not an unsigned
\* integer, and the field's value unchanged otherwise; add_page succeeds and
\* places the image by that code.
C9_OrientationResolved ==
  (pc # "building" /\ Len(images) = 1 /\ Composes(1)) =>
     /\ resolve(from_bytes(images[1]).v) = ExpectedCode(images[1])
     /\ \A removes \in Removals : add_page(images[1], dpi, strip_exif, removes).ok
     /\ Len(pages) = 1
     /\ result.ok \/ result.cause = "PdfWrite"
     /\ PlacedAs(pages[1],
                 GeometryTable(ExpectedCode(images[1]),
                               read_info(images[1]).v.width,
                               read_info(images[1]).v.height), dpi)

\* C9 witness: an orientation field of a non-integer type, placed upright
C9_Witness ==
  /\ pc = "done" /\ Len(pages) = 1
  /\ \E i \in 1..Len(images[1]) :
       /\ IsExif(images[1][i]) /\ images[1][i].tag
       /\ images[1][i].type = "RATIONAL"
  /\ pages[1].rotate_cw = None

Geometry(page) ==
  [width |-> page.width, height |-> page.height,
   translate_x |-> page.translate_x, translate_y |-> page.translate_y,
   rotate_cw |-> page.rotate_cw, scale_x |-> page.scale_x]

\* C10: the page size and the placement of every image are the same with
\* strip_exif = true as with strip_exif = false, and an image of orientation
\* 2..8 is not placed upright when its EXIF segment is stripped.
C10_GeometryIgnoresStrip ==
  pc # "building" =>
     \A k \in 1..Len(pages) :
        /\ \A removes \in Removals :
              Geometry(pages[k])
                = Geometry(add_page(images[k], dpi, ~strip_exif, removes).v)
        /\ (strip_exif /\ ExpectedCode(images[k]) \in 2..8) =>
              (pages[k].rotate_cw.some \/ pages[k].scale_x.some)

\* C10 witness: an image of orientation 6 stripped and still rotated
C10_Witness ==
  /\ pc = "done" /\ strip_exif /\ Len(pages) = 1
  /\ ExpectedCode(images[1]) = 6
  /\ ~HasExif(Payload(1))
  /\ pages[1].rotate_cw = Some(270)

\* the images handed to add_image and add_images by a history of calls
RECURSIVE Added(_)
Added(log) ==
  IF log = <<>> THEN <<>>
  ELSE LET c == log[Len(log)]
       IN  Added(SubSeq(log, 1, Len(log) - 1))
             \o (IF c.op \in {"add_image", "add_images"} THEN c.imgs ELSE <<>>)

\* the last call of setter op in a history of calls, 0 if there is none
LastCall(log, op) ==
  LET at == {i \in 1..Len(log) : log[i].op = op}
  IN  IF at = {} THEN 0 ELSE CHOOSE i \in at : \A j \in at : j <= i

\* C8: after any sequence of builder calls the image list is the arguments
\* of add_image and add_images in call order, and each of dpi, strip_exif,
\* title, creation date and modification date is the argument of the last
\* call of its setter, or its default (300, false, "", the instant new()
\* read for that field) when the setter was never called.
C8_BuilderState ==
  /\ images = Added(calls)
  /\ dpi = IF LastCall(calls, "set_dpi") = 0 THEN 300
           ELSE calls[LastCall(calls, "set_dpi")].n
  /\ strip_exif = IF LastCall(calls, "strip_exif") = 0 THEN FALSE
                  ELSE calls[LastCall(calls, "strip_exif")].b
  /\ document_title = IF LastCall(calls, "set_document_title") = 0 THEN ""
                      ELSE calls[LastCall(calls, "set_document_title")].t
  /\ creation_date = IF LastCall(calls, "set_creation_date") = 0 THEN now_utc[1]
                     ELSE calls[LastCall(calls, "set_creation_date")].n
  /\ mod_date = IF LastCall(calls, "set_mod_date") = 0 THEN now_utc[2]
                ELSE calls[LastCall(calls, "set_mod_date")].n

\* C8 witness: add_image, then add_images of two, then a setter, with the
\* three images in call order and the other settings at their defaults
C8_Witness ==
  /\ Len(calls) = 3
  /\ calls[1].op = "add_image" /\ calls[2].op = "add_images"
  /\ calls[3].op = "set_dpi"
  /\ Len(images) = 3 /\ images[1] = calls[1].imgs[1]
  /\ dpi = calls[3].n /\ dpi # 300
  /\ strip_exif = FALSE /\ document_title = ""

\* the sink fails only when the caller flushes: create_pdf returned Ok with
\* the whole document still held, and the caller leaves with exit code 1
FlushFails ==
  /\ pc = "exited" /\ result.ok /\ exit_code = 1
  /\ stderr = <<"Error: ", "<io::Error>">>
  /\ saves = 1 /\ Len(pages) = 1

\* a working sink receives the held document only at the flush
FlushWrites ==
  /\ pc = "exited" /\ result.ok /\ exit_code = 0
  /\ Len(out) = Len(pages) + 1 /\ buffered = <<>> /\ Len(pages) = 1

====
